---- MODULE Spec2Model ----
(***************************************************************************)
(* InviteAutoAccepter (synapse_auto_accept_invite/__init__.py): the event  *)
(* handler on_new_event, the knock-history checker, the direct-message     *)
(* recorder and the detached join retrier, as one state machine.           *)
(*                                                                         *)
(* Every await of the source is a step of its own: between two awaits a    *)
(* coroutine runs without interruption, so the code between them is one    *)
(* atomic action.  The collaborators (event source, room-state query,      *)
(* membership operation, account-data store) are the environment: what     *)
(* they may deliver is held in env, fixed by the initial state.            *)
(***************************************************************************)
EXTENDS Integers, Sequences, FiniteSets, TLC

VARIABLES
    env,            \* what the collaborators may do in this behaviour
    config,         \* InviteAutoAccepterConfig (frozen)
    worker_name,    \* ModuleApi.worker_name; "None" on the main process
    registered,     \* the callbacks __init__ registered with the host, in order
    tasks,          \* one on_new_event call per delivered event
    retriers,       \* the _retry_make_join run of each call (pc "none": not launched)
    account_data    \* the account-data store, key "m.direct", per local account

vars == <<env, config, worker_name, registered, tasks, retriers, account_data>>

----------------------------------------------------------------------------
(* Bounds of the environment *)

\* events delivered in a behaviour of the policy specification
MaxEvents == 1
\* invites delivered in a behaviour of the retry specification
MaxRuns == 1
\* direct invites delivered in a behaviour of the direct-message specification
MaxInvites == 2
\* returns without a result of update_room_membership in a behaviour
MaxNoResult == 1
\* calls of update_room_membership that raise in a behaviour of the
\* specification of concurrent retriers
MaxFailures == 3
\* largest origin_server_ts of a membership event in a fetched history
MaxTs == 2
\* longest membership history the room-state query returns
MaxHistory == 2

----------------------------------------------------------------------------
(* Program constants *)

\* while retries < 5
MaxRetries == 5

ACCOUNT_DATA_DIRECT_MESSAGE_LIST == "m.direct"

----------------------------------------------------------------------------
(* Values *)

Invitee  == "@invitee:here"
Inviter  == "@inviter:here"
Remote   == "@remote:there"
NoKey    == "None"
Rooms    == {"!r1", "!r2"}

\* module_api.is_mine: the accounts this server hosts
LocalUsers == {Invitee, Inviter}

is_mine(user_id) == user_id \in LocalUsers

\* Values of content["is_direct"], written as the Python literal; "absent" is a
\* content without the key.
IsDirectValues == {"absent", "False", "True", "'true'"}

\* event.content.get("is_direct", False)
content_get_is_direct(v) == IF v = "absent" THEN "False" ELSE v

\* Mutant: `x is True` read as a truth test.
IsTrue_coerced(v) == v \in {"True", "'true'"}

\* `x is True`: identity with the boolean, which no string or number has
IsTrue(v) == v = "True"

\* `if x:` Python truthiness of the values above
Truthy(v) == v \in {"True", "'true'"}

RECURSIVE Pow2(_)
\* 2**n
Pow2(n) == IF n = 0 THEN 1 ELSE 2 * Pow2(n - 1)

\* Worker names; "None" is the Python None: the name of the main process, and
\* the worker_to_run_on of a configuration that names no worker.
WorkerNames == {"None", "synchrotron42", "account_data1"}

Configs ==
    [accept_invites_only_for_direct_messages : BOOLEAN,
     accept_invites_only_from_local_users : BOOLEAN,
     accept_invites_only_from_previously_knocked_rooms : BOOLEAN,
     worker_to_run_on : WorkerNames]

\* The raw configuration mapping handed to parse_config.  Each key is absent
\* or present with a value; unknown_key stands for a key the parser does not
\* know.
Absent(v) == [present |-> FALSE, value |-> v]

Given(v) == [present |-> TRUE, value |-> v]

RawSwitch == {Absent(FALSE)} \cup {Given(b) : b \in BOOLEAN}

RawWorker == {Absent("None")} \cup {Given(w) : w \in {"None", "account_data1"}}

RawConfigs ==
    [accept_invites_only_for_direct_messages : RawSwitch,
     accept_invites_only_from_local_users : RawSwitch,
     accept_invites_only_from_previously_knocked_rooms : RawSwitch,
     worker_to_run_on : RawWorker,
     unknown_key : RawSwitch]

\* Mutant: the value given is ignored.
config_get_default(raw, key, default) == default

\* config.get(key, default)
config_get(raw, key, default) ==
    IF raw[key].present THEN raw[key].value ELSE default

parse_config(raw) ==
    [accept_invites_only_for_direct_messages |->
        config_get(raw, "accept_invites_only_for_direct_messages", FALSE),
     accept_invites_only_from_local_users |->
        config_get(raw, "accept_invites_only_from_local_users", FALSE),
     accept_invites_only_from_previously_knocked_rooms |->
        config_get(raw, "accept_invites_only_from_previously_knocked_rooms", FALSE),
     worker_to_run_on |-> config_get(raw, "worker_to_run_on", "None")]

\* Events as the handler sees them.  is_state() is "has a state key"; membership
\* is read only from m.room.member events.
MemberEvents ==
    [type : {"m.room.member"}, state_key : {NoKey, Invitee, Remote},
     membership : {"invite", "join"}, sender : {Inviter, Remote},
     room_id : Rooms, is_direct : IsDirectValues]

OtherEvents ==
    [type : {"m.room.message"}, state_key : {NoKey, Invitee, Remote},
     membership : {"none"}, sender : {Inviter, Remote},
     room_id : Rooms, is_direct : IsDirectValues]

Events == MemberEvents \cup OtherEvents

is_state(event) == event.state_key # NoKey

----------------------------------------------------------------------------
(* The account-data store.  get_global returns None for a key never stored; a
   stored m.direct value maps counterparties to entries, and an entry is a
   tuple or list of room ids (is_list) or some other value. *)

NoData == [stored |-> FALSE, map |-> <<>>]

Stored(m) == [stored |-> TRUE, map |-> m]

ListOf(rooms) == [is_list |-> TRUE, rooms |-> rooms]

NotAList == [is_list |-> FALSE, rooms |-> <<>>]

MapPut(m, k, v) == [x \in (DOMAIN m) \cup {k} |-> IF x = k THEN v ELSE m[x]]

----------------------------------------------------------------------------
(* _has_user_previously_knocked *)

\* What get_state_events_in_room may answer: it raises, or it returns the
\* membership events of the user in the room, in the order the host gives them.
QueryRaises == [ok |-> FALSE, events |-> <<>>]

QueryReturns(events) == [ok |-> TRUE, events |-> events]

\* The membership events of one user in one room, as the checker reads them
HistoryEvents ==
    [origin_server_ts : 1..MaxTs, membership : {"knock", "leave", "join"}]

\* the histories the query may return, in any order of fetching
Histories == UNION {[1..n -> HistoryEvents] : n \in 0..MaxHistory}

RECURSIVE InsertDesc_before_equal(_, _)
\* Mutant: an element is put in front of the elements of equal key.
InsertDesc_before_equal(x, sorted) ==
    IF sorted = <<>> THEN <<x>>
    ELSE IF Head(sorted).origin_server_ts > x.origin_server_ts
         THEN <<Head(sorted)>> \o InsertDesc_before_equal(x, Tail(sorted))
         ELSE <<x>> \o sorted

RECURSIVE InsertDesc(_, _)
\* Insert x into a sequence sorted by origin_server_ts, largest first, behind
\* the elements of equal key: a stable sort keeps equal keys in input order.
InsertDesc(x, sorted) ==
    IF sorted = <<>> THEN <<x>>
    ELSE IF Head(sorted).origin_server_ts >= x.origin_server_ts
         THEN <<Head(sorted)>> \o InsertDesc(x, Tail(sorted))
         ELSE <<x>> \o sorted

RECURSIVE SortedDesc(_)
\* sorted(membership_events, key=origin_server_ts, reverse=True)
SortedDesc(events) ==
    IF events = <<>> THEN <<>>
    ELSE InsertDesc(events[Len(events)], SortedDesc(SubSeq(events, 1, Len(events) - 1)))

\* Mutant: a knock anywhere in the history is enough.
has_user_ever_knocked(answer) ==
    /\ answer.ok
    /\ \E k \in 1..Len(answer.events) : answer.events[k].membership = "knock"

\* Mutant: a failed query counts as a knock.
has_user_previously_knocked_fail_open(answer) ==
    IF ~answer.ok THEN TRUE
    ELSE IF answer.events = <<>> THEN FALSE
    ELSE SortedDesc(answer.events)[1].membership = "knock"

\* The verdict of the checker on the answer of the room-state query
has_user_previously_knocked(answer) ==
    IF ~answer.ok THEN FALSE                       \* except Exception: return False
    ELSE IF answer.events = <<>> THEN FALSE        \* if not membership_events
    ELSE SortedDesc(answer.events)[1].membership = "knock"

----------------------------------------------------------------------------
(* on_new_event: the accept decision *)

\* Mutant: the target's locality is not checked.
is_invite_for_any_user(event) ==
    /\ event.type = "m.room.member"
    /\ is_state(event)
    /\ event.membership = "invite"

is_invite_for_local_user(event) ==
    /\ event.type = "m.room.member"
    /\ is_state(event)
    /\ event.membership = "invite"
    /\ is_mine(event.state_key)

is_direct_message(event) == content_get_is_direct(event.is_direct)

is_allowed_by_direct_message_rules(event) ==
    \/ ~config.accept_invites_only_for_direct_messages
    \/ IsTrue(is_direct_message(event))

\* Mutant: the sender must be local whatever the configuration.
is_allowed_only_from_local_user(event) == is_mine(event.sender)

is_allowed_by_local_user_rules(event) ==
    \/ ~config.accept_invites_only_from_local_users
    \/ is_mine(event.sender)

\* Mutant: the local-sender rule is left out of the condition.
should_accept_any_sender(event, is_allowed_by_knock_rules) ==
    /\ is_invite_for_local_user(event)
    /\ is_allowed_by_direct_message_rules(event)
    /\ is_allowed_by_knock_rules

\* the condition of the `if` that launches the retrier
should_accept(event, is_allowed_by_knock_rules) ==
    /\ is_invite_for_local_user(event)
    /\ is_allowed_by_direct_message_rules(event)
    /\ is_allowed_by_local_user_rules(event)
    /\ is_allowed_by_knock_rules

\* `if is_direct_message:` guards the recorder
marks_direct_message(event) == Truthy(is_direct_message(event))

----------------------------------------------------------------------------
(* State of one on_new_event call and of its retrier *)

NoRetrier ==
    [pc |-> "none", sender |-> "None", target |-> "None", room_id |-> "None",
     new_membership |-> "None", sleep |-> 0, retries |-> 0, join_event |-> "None",
     slept |-> <<>>, calls |-> <<>>, results |-> <<>>]

\* Mutant: the join is requested for the sender of the invite.
LaunchedRetrier_for_sender(event) ==
    [pc |-> "sleep", sender |-> event.sender, target |-> event.sender,
     room_id |-> event.room_id, new_membership |-> "join", sleep |-> 0,
     retries |-> 0, join_event |-> "None", slept |-> <<>>, calls |-> <<>>,
     results |-> <<>>]

\* run_as_background_process("retry_make_join", self._retry_make_join,
\*     event.state_key, event.state_key, event.room_id, "join"):
\* the run starts with sleep = 0, retries = 0, join_event = None, and enters the
\* loop, 0 < 5, up to its first await.
LaunchedRetrier(event) ==
    [pc |-> "sleep", sender |-> event.state_key, target |-> event.state_key,
     room_id |-> event.room_id, new_membership |-> "join", sleep |-> 0,
     retries |-> 0, join_event |-> "None", slept |-> <<>>, calls |-> <<>>,
     results |-> <<>>]

\* What a call of on_new_event does to its collaborators, logged in order in
\* the field effects: "get_state_events_in_room", "run_as_background_process",
\* "get_global" and "put_global" when the call is made, with the account and
\* the account-data type of a store call, and "return" when on_new_event
\* returns.
Effect(op, user_id, data_type) ==
    [op |-> op, user_id |-> user_id, data_type |-> data_type]

Did(op) == Effect(op, "None", "None")

NewTask(event) ==
    [pc |-> "start", event |-> event, is_allowed_by_knock_rules |-> TRUE,
     queries |-> <<>>, launched |-> 0, dm_read |-> NoData, dm_map |-> <<>>,
     effects |-> <<>>]

\* Mutant: the recorder works for the sender of the invite.
mark_room_as_direct_message_swapped(event) ==
    [user_id |-> event.sender, dm_user_id |-> event.state_key,
     room_id |-> event.room_id]

\* _mark_room_as_direct_message(event.state_key, event.sender, event.room_id):
\* the parameters user_id, dm_user_id, room_id
mark_room_as_direct_message(event) ==
    [user_id |-> event.state_key, dm_user_id |-> event.sender,
     room_id |-> event.room_id]

\* get_global(user_id, ACCOUNT_DATA_DIRECT_MESSAGE_LIST)
get_global(event) ==
    Effect("get_global", mark_room_as_direct_message(event).user_id,
           ACCOUNT_DATA_DIRECT_MESSAGE_LIST)

\* put_global(user_id, ACCOUNT_DATA_DIRECT_MESSAGE_LIST, dm_map)
put_global(event) ==
    Effect("put_global", mark_room_as_direct_message(event).user_id,
           ACCOUNT_DATA_DIRECT_MESSAGE_LIST)

\* Mutant: the history asked for is that of the invited account.
knock_query_for_state_key(event) ==
    [room_id |-> event.room_id, types |-> <<<<"m.room.member", event.state_key>>>>]

\* _has_user_previously_knocked(event.sender, event.room_id) calls
\* get_state_events_in_room(room_id, types=[("m.room.member", user_id)])
knock_query(event) ==
    [room_id |-> event.room_id, types |-> <<<<"m.room.member", event.sender>>>>]

\* From the `if` at the end of the decision to the next await or the return:
\* launch the retrier, then either call the recorder (suspended in get_global)
\* or return.
\* Mutant: the recorder is called outside the `if` of the accept decision.
Decide_records_always(task, verdict) ==
    LET accept == should_accept(task.event, verdict)
        records == marks_direct_message(task.event)
    IN  [task EXCEPT !.is_allowed_by_knock_rules = verdict,
                     !.launched = IF accept THEN 1 ELSE 0,
                     !.pc = IF records THEN "get" ELSE "returned",
                     !.effects =
                         @ \o (IF accept THEN <<Did("run_as_background_process")>>
                                         ELSE <<>>)
                           \o (IF records THEN <<get_global(task.event)>>
                                          ELSE <<Did("return")>>)]

\* Mutant: the recorder is started like the retrier, not awaited.
Decide_without_await(task, verdict) ==
    LET accept == should_accept(task.event, verdict)
        records == accept /\ marks_direct_message(task.event)
    IN  [task EXCEPT !.is_allowed_by_knock_rules = verdict,
                     !.launched = IF accept THEN 1 ELSE 0,
                     !.pc = IF records THEN "get" ELSE "returned",
                     !.effects =
                         @ \o (IF accept THEN <<Did("run_as_background_process")>>
                                         ELSE <<>>)
                           \o <<Did("return")>>
                           \o (IF records THEN <<get_global(task.event)>> ELSE <<>>)]

Decide(task, verdict) ==
    LET accept == should_accept(task.event, verdict)
        records == accept /\ marks_direct_message(task.event)
    IN  [task EXCEPT !.is_allowed_by_knock_rules = verdict,
                     !.launched = IF accept THEN 1 ELSE 0,
                     !.pc = IF records THEN "get" ELSE "returned",
                     !.effects =
                         @ \o (IF accept THEN <<Did("run_as_background_process")>>
                                         ELSE <<>>)
                           \o (IF records THEN <<get_global(task.event)>>
                                          ELSE <<Did("return")>>)]

DecideRetrier(task, verdict) ==
    IF should_accept(task.event, verdict) THEN LaunchedRetrier(task.event)
    ELSE NoRetrier

----------------------------------------------------------------------------
(* _mark_room_as_direct_message, between get_global and put_global *)

\* dict(get_global(...) or {})
dm_map_of(read) == IF read.stored THEN read.map ELSE <<>>

\* Mutant: the type of the entry is not checked.
dm_understood_unchecked(read, dm_user_id) == TRUE

\* whether the run reaches put_global: it returns early on an entry that is
\* neither a tuple nor a list
dm_understood(read, dm_user_id) ==
    \/ dm_user_id \notin DOMAIN dm_map_of(read)
    \/ dm_map_of(read)[dm_user_id].is_list

\* Mutant: the entry of the counterparty is replaced, not extended.
dm_map_replaced(read, dm_user_id, room_id) ==
    MapPut(dm_map_of(read), dm_user_id, ListOf(<<room_id>>))

\* Mutant: a room already listed is not appended again.
dm_map_deduplicated(read, dm_user_id, room_id) ==
    LET dm_map == dm_map_of(read) IN
    IF dm_user_id \notin DOMAIN dm_map
    THEN MapPut(dm_map, dm_user_id, ListOf(<<room_id>>))
    ELSE IF \E k \in 1..Len(dm_map[dm_user_id].rooms) :
                dm_map[dm_user_id].rooms[k] = room_id
         THEN dm_map
         ELSE MapPut(dm_map, dm_user_id,
                     ListOf(dm_map[dm_user_id].rooms \o <<room_id>>))

\* the map handed to put_global
dm_map_updated(read, dm_user_id, room_id) ==
    LET dm_map == dm_map_of(read) IN
    IF dm_user_id \notin DOMAIN dm_map
    THEN MapPut(dm_map, dm_user_id, ListOf(<<room_id>>))
    ELSE MapPut(dm_map, dm_user_id,
                ListOf(dm_map[dm_user_id].rooms \o <<room_id>>))

----------------------------------------------------------------------------
(* _retry_make_join, one iteration of the loop *)

\* Mutant: retries is counted up before the sleep is computed.
retry_raised_counted_first(r) ==
    [r EXCEPT !.sleep = Pow2(r.retries + 1), !.retries = r.retries + 1]

\* except Exception: sleep = 2**retries; retries += 1
retry_raised(r) ==
    [r EXCEPT !.sleep = Pow2(r.retries), !.retries = r.retries + 1]

\* Mutant: a call that returns starts the count of failures over.
retry_returned_starts_over(r, result) ==
    [r EXCEPT !.join_event = result, !.retries = 0, !.sleep = 0]

\* join_event = await update_room_membership(...)
retry_returned(r, result) == [r EXCEPT !.join_event = result]

\* Mutant: the loop does not break on a join event.
retry_next_pc_no_break(r) ==
    IF r.retries < MaxRetries THEN "sleep" ELSE "done"

\* Mutant: while retries <= 5.
retry_next_pc_one_more(r) ==
    IF r.join_event # "None" THEN "done"
    ELSE IF r.retries <= MaxRetries THEN "sleep"
    ELSE "done"

\* Mutant: the loop gives up after the first failure.
retry_next_pc_gives_up(r) ==
    IF r.join_event # "None" THEN "done"
    ELSE IF r.retries < 1 THEN "sleep"
    ELSE "done"

\* `if join_event is not None: break`, then `while retries < 5`
retry_next_pc(r) ==
    IF r.join_event # "None" THEN "done"
    ELSE IF r.retries < MaxRetries THEN "sleep"
    ELSE "done"

RECURSIVE Failures(_)
\* how often update_room_membership has raised so far, over all runs
Failures(rs) ==
    IF rs = <<>> THEN 0
    ELSE Cardinality({k \in 1..Len(Head(rs).results) : Head(rs).results[k] = "raise"})
         + Failures(Tail(rs))

RECURSIVE NoResults(_)
\* how often update_room_membership has returned None so far, over all runs
NoResults(rs) ==
    IF rs = <<>> THEN 0
    ELSE Cardinality({k \in 1..Len(Head(rs).results) : Head(rs).results[k] = "none"})
         + NoResults(Tail(rs))

----------------------------------------------------------------------------
(* Actions *)

\* Mutant: the knock history is asked for only where the event is an invite
\* for a local user.
on_new_event_query_for_invites(event) ==
    /\ \E k \in DOMAIN registered : registered[k] = "on_new_event"
    /\ Len(tasks) < env.budget
    /\ event \in env.events
    /\ IF /\ config.accept_invites_only_from_previously_knocked_rooms
          /\ is_invite_for_local_user(event)
       THEN /\ tasks' = Append(tasks, [NewTask(event) EXCEPT
                                          !.pc = "knock",
                                          !.queries = Append(@, knock_query(event)),
                                          !.effects = <<Did("get_state_events_in_room")>>])
            /\ retriers' = Append(retriers, NoRetrier)
       ELSE /\ tasks' = Append(tasks, Decide(NewTask(event), TRUE))
            /\ retriers' = Append(retriers, DecideRetrier(NewTask(event), TRUE))
    /\ UNCHANGED <<env, config, worker_name, registered, account_data>>

\* Mutant: the host calls on_new_event whether or not it was registered.
on_new_event_unregistered(event) ==
    /\ Len(tasks) < env.budget
    /\ event \in env.events
    /\ IF config.accept_invites_only_from_previously_knocked_rooms
       THEN /\ tasks' = Append(tasks, [NewTask(event) EXCEPT
                                          !.pc = "knock",
                                          !.queries = Append(@, knock_query(event)),
                                          !.effects = <<Did("get_state_events_in_room")>>])
            /\ retriers' = Append(retriers, NoRetrier)
       ELSE /\ tasks' = Append(tasks, Decide(NewTask(event), TRUE))
            /\ retriers' = Append(retriers, DecideRetrier(NewTask(event), TRUE))
    /\ UNCHANGED <<env, config, worker_name, registered, account_data>>

\* The host calls on_new_event(event); the call runs to its first await.
on_new_event(event) ==
    /\ \E k \in DOMAIN registered : registered[k] = "on_new_event"
    /\ Len(tasks) < env.budget
    /\ event \in env.events
    /\ IF config.accept_invites_only_from_previously_knocked_rooms
       THEN /\ tasks' = Append(tasks, [NewTask(event) EXCEPT
                                          !.pc = "knock",
                                          !.queries = Append(@, knock_query(event)),
                                          !.effects = <<Did("get_state_events_in_room")>>])
            /\ retriers' = Append(retriers, NoRetrier)
       ELSE /\ tasks' = Append(tasks, Decide(NewTask(event), TRUE))
            /\ retriers' = Append(retriers, DecideRetrier(NewTask(event), TRUE))
    /\ UNCHANGED <<env, config, worker_name, registered, account_data>>

\* get_state_events_in_room answers call i, which runs on to its next await.
knock_answered(i, answer) ==
    /\ tasks[i].pc = "knock"
    /\ answer \in env.knock
    /\ LET verdict == has_user_previously_knocked(answer) IN
       /\ tasks' = [tasks EXCEPT ![i] = Decide(@, verdict)]
       /\ retriers' = [retriers EXCEPT ![i] = DecideRetrier(tasks[i], verdict)]
    /\ UNCHANGED <<env, config, worker_name, registered, account_data>>

\* get_global(user_id, "m.direct") answers call i or raises.
get_global_answered(i, outcome) ==
    /\ tasks[i].pc = "get"
    /\ outcome \in env.account
    /\ LET args == mark_room_as_direct_message(tasks[i].event)
           read == account_data[args.user_id]
           dm_user_id == args.dm_user_id
           room_id == args.room_id
       IN  tasks' = [tasks EXCEPT ![i] =
             IF outcome = "raise" THEN [@ EXCEPT !.pc = "raised"]
             ELSE IF ~dm_understood(read, dm_user_id)
                  THEN [@ EXCEPT !.pc = "returned", !.dm_read = read,
                           !.effects = Append(@, Did("return"))]
                  ELSE [@ EXCEPT !.pc = "put", !.dm_read = read,
                           !.dm_map = dm_map_updated(read, dm_user_id, room_id),
                           !.effects = Append(@, put_global(tasks[i].event))]]
    /\ UNCHANGED <<env, config, worker_name, registered, retriers, account_data>>

\* Mutant: the store applies the association to the map it holds at the time
\* of the write.
put_global_merged(i, outcome) ==
    /\ tasks[i].pc = "put"
    /\ outcome \in env.account
    /\ IF outcome = "raise"
       THEN /\ tasks' = [tasks EXCEPT ![i].pc = "raised"]
            /\ UNCHANGED account_data
       ELSE /\ tasks' = [tasks EXCEPT ![i].pc = "returned",
                                      ![i].effects = Append(@, Did("return"))]
            /\ account_data' = [account_data EXCEPT
                   ![tasks[i].event.state_key] =
                       Stored(dm_map_updated(@, tasks[i].event.sender,
                                             tasks[i].event.room_id))]
    /\ UNCHANGED <<env, config, worker_name, registered, retriers>>

\* put_global(user_id, "m.direct", dm_map) stores the map or raises.
put_global_answered(i, outcome) ==
    /\ tasks[i].pc = "put"
    /\ outcome \in env.account
    /\ IF outcome = "raise"
       THEN /\ tasks' = [tasks EXCEPT ![i].pc = "raised"]
            /\ UNCHANGED account_data
       ELSE /\ tasks' = [tasks EXCEPT ![i].pc = "returned",
                                      ![i].effects = Append(@, Did("return"))]
            /\ account_data' = [account_data EXCEPT
                   ![mark_room_as_direct_message(tasks[i].event).user_id] =
                       Stored(tasks[i].dm_map)]
    /\ UNCHANGED <<env, config, worker_name, registered, retriers>>

\* await self._api.sleep(sleep)
retry_sleep(i) ==
    /\ retriers[i].pc = "sleep"
    /\ retriers' = [retriers EXCEPT ![i] =
           [@ EXCEPT !.pc = "call", !.slept = Append(@, retriers[i].sleep)]]
    /\ UNCHANGED <<env, config, worker_name, registered, tasks, account_data>>

\* Mutant: a run that gives up takes the room out of the account data again.
retry_update_room_membership_undoing(i, outcome) ==
    /\ retriers[i].pc = "call"
    /\ outcome \in env.membership
    /\ outcome = "none" => NoResults(retriers) < MaxNoResult
    /\ outcome = "raise" => Failures(retriers) < env.failures
    /\ LET r == retriers[i]
           call == [sender |-> r.sender, target |-> r.target,
                    room_id |-> r.room_id, new_membership |-> r.new_membership]
           logged == [r EXCEPT !.calls = Append(@, call),
                               !.results = Append(@, outcome)]
           after == IF outcome = "raise" THEN retry_raised(logged)
                    ELSE IF outcome = "event" THEN retry_returned(logged, "event")
                    ELSE retry_returned(logged, "None")
       IN  /\ retriers' = [retriers EXCEPT ![i] = [after EXCEPT !.pc = retry_next_pc(after)]]
           /\ account_data' =
                 IF retry_next_pc(after) = "done" /\ after.join_event = "None"
                 THEN [account_data EXCEPT ![r.target] = NoData]
                 ELSE account_data
    /\ UNCHANGED <<env, config, worker_name, registered, tasks>>

\* Mutant: sleep and retries are attributes of the module, shared by its runs.
retry_update_room_membership_shared(i, outcome) ==
    /\ retriers[i].pc = "call"
    /\ outcome \in env.membership
    /\ outcome = "none" => NoResults(retriers) < MaxNoResult
    /\ outcome = "raise" => Failures(retriers) < env.failures
    /\ LET r == retriers[i]
           call == [sender |-> r.sender, target |-> r.target,
                    room_id |-> r.room_id, new_membership |-> r.new_membership]
           logged == [r EXCEPT !.calls = Append(@, call),
                               !.results = Append(@, outcome)]
           after == IF outcome = "raise" THEN retry_raised(logged)
                    ELSE IF outcome = "event" THEN retry_returned(logged, "event")
                    ELSE retry_returned(logged, "None")
       IN  retriers' = [j \in DOMAIN retriers |->
                          IF j = i THEN [after EXCEPT !.pc = retry_next_pc(after)]
                          ELSE IF retriers[j].pc \in {"sleep", "call"}
                               THEN [retriers[j] EXCEPT !.sleep = after.sleep,
                                                        !.retries = after.retries]
                               ELSE retriers[j]]
    /\ UNCHANGED <<env, config, worker_name, registered, tasks, account_data>>

\* await self._api.update_room_membership(sender=sender, target=target,
\* room_id=room_id, new_membership=new_membership): it raises, returns the join
\* event, or returns None.
retry_update_room_membership(i, outcome) ==
    /\ retriers[i].pc = "call"
    /\ outcome \in env.membership
    /\ outcome = "none" => NoResults(retriers) < MaxNoResult
    /\ outcome = "raise" => Failures(retriers) < env.failures
    /\ LET r == retriers[i]
           call == [sender |-> r.sender, target |-> r.target,
                    room_id |-> r.room_id, new_membership |-> r.new_membership]
           logged == [r EXCEPT !.calls = Append(@, call),
                               !.results = Append(@, outcome)]
           after == IF outcome = "raise" THEN retry_raised(logged)
                    ELSE IF outcome = "event" THEN retry_returned(logged, "event")
                    ELSE retry_returned(logged, "None")
       IN  retriers' = [retriers EXCEPT ![i] = [after EXCEPT !.pc = retry_next_pc(after)]]
    /\ UNCHANGED <<env, config, worker_name, registered, tasks, account_data>>

Next ==
    \/ \E event \in Events : on_new_event(event)
    \/ \E i \in DOMAIN tasks : \E answer \in env.knock : knock_answered(i, answer)
    \/ \E i \in DOMAIN tasks : \E outcome \in {"ok", "raise"} :
          get_global_answered(i, outcome)
    \/ \E i \in DOMAIN tasks : \E outcome \in {"ok", "raise"} :
          put_global_answered(i, outcome)
    \/ \E i \in DOMAIN retriers : retry_sleep(i)
    \/ \E i \in DOMAIN retriers : \E outcome \in {"raise", "event", "none"} :
          retry_update_room_membership(i, outcome)

----------------------------------------------------------------------------
(* Environments and initial states *)

\* Mutant: a configuration that names no worker runs on every process.
should_run_where_unset(cfg, name) ==
    cfg.worker_to_run_on = "None" \/ cfg.worker_to_run_on = name

\* __init__: should_run_on_this_worker = config.worker_to_run_on == worker_name
should_run_on_this_worker(cfg, name) == cfg.worker_to_run_on = name

\* __init__ on the process called name: it returns early where it is not to
\* run, and else calls register_third_party_rules_callbacks(on_new_event=...)
InitOn(e, cfgs, names, data) ==
    /\ env = e
    /\ config \in cfgs
    /\ worker_name \in names
    /\ registered = IF should_run_on_this_worker(config, worker_name)
                    THEN <<"on_new_event">> ELSE <<>>
    /\ tasks = <<>>
    /\ retriers = <<>>
    /\ \E d \in data :
          account_data = [u \in LocalUsers |-> IF u = Invitee THEN d ELSE NoData]

\* the same on the main process
InitWith(e, cfgs, data) == InitOn(e, cfgs, {"None"}, data)

\* Any event in one room, any configuration; the collaborators answer, the
\* room-state query possibly with an error.
EnvPolicy ==
    [events |-> {e \in Events : e.room_id = "!r1"},
     knock |-> {QueryRaises, QueryReturns(<<>>),
                QueryReturns(<<[origin_server_ts |-> 1, membership |-> "knock"]>>),
                QueryReturns(<<[origin_server_ts |-> 1, membership |-> "leave"]>>)},
     membership |-> {"event"},
     account |-> {"ok", "raise"},
     budget |-> MaxEvents,
     failures |-> 0]

Init == InitWith(EnvPolicy, Configs, {NoData})

Spec == Init /\ [][Next]_vars

\* Invites to a local account, direct or not, with a membership operation that
\* may raise, return the join event or return nothing on each call.
EnvRetry ==
    [events |-> {e \in MemberEvents :
                    /\ e.membership = "invite" /\ e.state_key = Invitee
                    /\ e.sender = Inviter /\ e.room_id = "!r1"
                    /\ e.is_direct \in {"False", "True"}},
     knock |-> {QueryReturns(<<[origin_server_ts |-> 1, membership |-> "knock"]>>)},
     membership |-> {"raise", "event", "none"},
     account |-> {"ok"},
     budget |-> MaxRuns,
     failures |-> MaxRetries * MaxRuns]

\* the default configuration, with the knock rule off or on
PlainConfigs ==
    {c \in Configs : /\ ~c.accept_invites_only_for_direct_messages
                     /\ ~c.accept_invites_only_from_local_users
                     /\ c.worker_to_run_on = "None"}

\* the default configuration with the knock rule on
KnockConfigs ==
    {c \in PlainConfigs : c.accept_invites_only_from_previously_knocked_rooms}

InitRetry == InitWith(EnvRetry, KnockConfigs, {NoData})

SpecRetry == InitRetry /\ [][Next]_vars

\* Direct invites to one local account from two counterparties into two rooms,
\* handled concurrently, over a store that may hold an m.direct map already.
EnvDirect ==
    [events |-> {e \in MemberEvents :
                    /\ e.membership = "invite" /\ e.state_key = Invitee
                    /\ e.is_direct = "True"
                    /\ ~(e.sender = Remote /\ e.room_id = "!r2")},
     knock |-> {QueryReturns(<<[origin_server_ts |-> 1, membership |-> "knock"]>>)},
     membership |-> {"event"},
     account |-> {"ok"},
     budget |-> MaxInvites,
     failures |-> 0]

InitialMaps ==
    {NoData,
     Stored(MapPut(<<>>, Inviter, ListOf(<<"!r2", "!r1">>))),
     Stored(MapPut(MapPut(<<>>, Inviter, NotAList), Remote, ListOf(<<"!r1">>)))}

InitDirect == InitWith(EnvDirect, KnockConfigs, InitialMaps)

SpecDirect == InitDirect /\ [][Next]_vars

\* Invites that pass every other rule, direct or not, with the knock rule on;
\* the room-state query gives one answer, the same whenever asked: it raises
\* or returns one history.
EnvKnock(answer) ==
    [events |-> {e \in MemberEvents :
                    /\ e.membership = "invite" /\ e.state_key = Invitee
                    /\ e.sender = Inviter /\ e.room_id = "!r1"
                    /\ e.is_direct \in {"False", "True"}},
     knock |-> {answer},
     membership |-> {"event"},
     account |-> {"ok"},
     budget |-> MaxRuns,
     failures |-> 0]

KnockAnswers == {QueryRaises} \cup {QueryReturns(h) : h \in Histories}

InitKnock ==
    \E answer \in KnockAnswers : InitWith(EnvKnock(answer), KnockConfigs, {NoData})

SpecKnock == InitKnock /\ [][Next]_vars

\* Direct invites to a local or a remote account, from a local or a remote
\* sender, each pair of invitee and sender with a room of the two; the module
\* is built on any process with a configuration that names any worker or none.
EnvWorkers ==
    [events |-> {e \in MemberEvents :
                    /\ e.membership = "invite" /\ e.state_key # NoKey
                    /\ e.is_direct = "True"
                    /\ e.room_id = IF (e.state_key = Invitee) = (e.sender = Inviter)
                                   THEN "!r1" ELSE "!r2"},
     knock |-> {QueryReturns(<<[origin_server_ts |-> 1, membership |-> "knock"]>>)},
     membership |-> {"event"},
     account |-> {"ok"},
     budget |-> MaxInvites,
     failures |-> 0]

\* the knock rule on, on any worker
WorkerConfigs ==
    {c \in Configs : /\ ~c.accept_invites_only_for_direct_messages
                     /\ ~c.accept_invites_only_from_local_users
                     /\ c.accept_invites_only_from_previously_knocked_rooms}

InitWorkers == InitOn(EnvWorkers, WorkerConfigs, WorkerNames, {NoData})

SpecWorkers == InitWorkers /\ [][Next]_vars

\* The module is built from a raw configuration mapping, on the main process
\* or on the worker account_data1, and handles invites to a local account.
EnvConfig(raw) ==
    [raw |-> raw,
     events |-> {e \in MemberEvents :
                    /\ e.membership = "invite" /\ e.state_key = Invitee
                    /\ e.room_id = "!r1" /\ e.is_direct \in {"False", "True"}},
     knock |-> {QueryReturns(<<[origin_server_ts |-> 1, membership |-> "knock"]>>)},
     membership |-> {"event"},
     account |-> {"ok"},
     budget |-> MaxRuns,
     failures |-> 0]

InitConfig ==
    \E raw \in RawConfigs :
        InitOn(EnvConfig(raw), {parse_config(raw)}, {"None", "account_data1"}, {NoData})

SpecConfig == InitConfig /\ [][Next]_vars

\* The same direct invite delivered several times, so that several retriers
\* run at once for one account and one room, each call of the membership
\* operation raising or returning the join event.
EnvRetriers ==
    [events |-> {e \in MemberEvents :
                    /\ e.membership = "invite" /\ e.state_key = Invitee
                    /\ e.sender = Inviter /\ e.room_id = "!r1"
                    /\ e.is_direct = "True"},
     knock |-> {QueryReturns(<<[origin_server_ts |-> 1, membership |-> "knock"]>>)},
     membership |-> {"raise", "event"},
     account |-> {"ok"},
     budget |-> MaxInvites,
     failures |-> MaxFailures]

InitRetriers == InitWith(EnvRetriers, KnockConfigs, {NoData})

SpecRetriers == InitRetriers /\ [][Next]_vars

----------------------------------------------------------------------------
(* Properties *)

\* the call has taken its accept decision
Decided(i) == tasks[i].pc # "knock"

\* C1: on_new_event launches exactly one Join Retrier if the event is an
\* m.room.member state event with membership invite for a locally hosted
\* state key, and each switched-on rule is met (is_direct is the boolean true,
\* the sender is local, the knock check returned true); otherwise it launches
\* none.
C1_LaunchIffAccepted ==
    \A i \in DOMAIN tasks :
        Decided(i) =>
            LET e == tasks[i].event
                wanted ==
                    /\ e.type = "m.room.member"
                    /\ e.state_key # NoKey
                    /\ e.membership = "invite"
                    /\ e.state_key \in LocalUsers
                    /\ (config.accept_invites_only_for_direct_messages
                            => e.is_direct = "True")
                    /\ (config.accept_invites_only_from_local_users
                            => e.sender \in LocalUsers)
                    /\ (config.accept_invites_only_from_previously_knocked_rooms
                            => tasks[i].is_allowed_by_knock_rules)
            IN  /\ tasks[i].launched = (IF wanted THEN 1 ELSE 0)
                /\ (retriers[i].pc # "none") <=> wanted

\* an invite accepted with all three switches on
C1_Witness ==
    /\ config.accept_invites_only_for_direct_messages
    /\ config.accept_invites_only_from_local_users
    /\ config.accept_invites_only_from_previously_knocked_rooms
    /\ \E i \in DOMAIN tasks : Decided(i) /\ tasks[i].launched = 1

\* C2: an event that is not an m.room.member state event with membership invite
\* for a locally hosted state key never causes a call of update_room_membership,
\* whatever the configuration.
C2_NoJoinForOtherEvents ==
    \A i \in DOMAIN tasks :
        LET e == tasks[i].event IN
        (\/ e.type # "m.room.member"
         \/ e.state_key = NoKey
         \/ e.membership # "invite"
         \/ e.state_key \notin LocalUsers)
            => /\ retriers[i].pc = "none"
               /\ retriers[i].results = <<>>

\* an invite to a remote account has been handled with every switch off
C2_Witness ==
    /\ ~config.accept_invites_only_for_direct_messages
    /\ ~config.accept_invites_only_from_local_users
    /\ ~config.accept_invites_only_from_previously_knocked_rooms
    /\ \E i \in DOMAIN tasks :
          /\ tasks[i].pc = "returned"
          /\ tasks[i].event.type = "m.room.member"
          /\ tasks[i].event.membership = "invite"
          /\ tasks[i].event.state_key = Remote

AllRaised(results) == \A k \in 1..Len(results) : results[k] = "raise"

\* C3: when update_room_membership raises k < 5 times and then returns the join
\* event, the run has called it k + 1 times and is over, with no sleep after
\* the successful call; after fewer than 5 failures alone it is not over.
C3_StopsAtFirstSuccess ==
    \A i \in DOMAIN retriers :
        LET r == retriers[i]
            n == Len(r.results)
        IN  /\ (/\ n >= 1
                /\ r.results[n] = "event"
                /\ AllRaised(SubSeq(r.results, 1, n - 1)))
                   => /\ n - 1 < 5
                      /\ r.pc = "done"
                      /\ Len(r.slept) = n
            /\ (r.pc # "none" /\ AllRaised(r.results) /\ n < 5)
                   => r.pc \in {"sleep", "call"}

\* two failures, then the join event
C3_Witness ==
    \E i \in DOMAIN retriers :
        /\ retriers[i].results = <<"raise", "raise", "event">>
        /\ retriers[i].pc = "done"

\* C4: when update_room_membership raises on every call, the run calls it
\* exactly 5 times and then ends; the handler that launched it has not raised.
C4_ExhaustsAfterFive ==
    \A i \in DOMAIN retriers :
        LET r == retriers[i] IN
        (r.pc # "none" /\ AllRaised(r.results))
            => /\ Len(r.results) <= 5
               /\ (r.pc = "done") <=> (Len(r.results) = 5)
               /\ tasks[i].pc # "raised"

\* five failures and the run is over
C4_Witness ==
    \E i \in DOMAIN retriers :
        /\ retriers[i].results = <<"raise", "raise", "raise", "raise", "raise">>
        /\ retriers[i].pc = "done"

\* C5: a run calls update_room_membership at most 5 times, whether a call
\* raises, returns the join event or returns without a result.
C5_AtMostFiveCalls ==
    \A i \in DOMAIN retriers : Len(retriers[i].results) <= 5

RECURSIVE Sum(_)
Sum(seq) == IF seq = <<>> THEN 0 ELSE Head(seq) + Sum(Tail(seq))

Schedule == <<0, 1, 2, 4, 8>>

\* C6: the delay before attempt n (0-indexed) is 0 for n = 0 and 2^(n-1) for
\* n = 1..4, each delay is taken before its attempt and none after the last,
\* and a run that gives up has slept 15 seconds.
C6_BackoffSchedule ==
    \A i \in DOMAIN retriers :
        LET r == retriers[i] IN
        /\ \A n \in 1..Len(r.slept) : n <= 5 => r.slept[n] = Schedule[n]
        /\ Len(r.slept) = Len(r.results) + (IF r.pc = "call" THEN 1 ELSE 0)
        /\ (r.pc = "done" /\ r.join_event = "None") => Sum(r.slept) = 15

\* C7: no call of on_new_event ends with an error, whichever collaborator
\* fails (membership operation, room-state query, account-data get or put).
C7_HandlerNeverRaises ==
    \A i \in DOMAIN tasks : tasks[i].pc # "raised"

\* C8: the retrier is detached.  The handler never waits for it: the handler
\* of an invite that is not marked direct has returned before the first
\* attempt, and whatever the handler still awaits can be answered wherever the
\* retrier is.  The retrier does not depend on the handler either: while it is
\* not over its next step can be taken whether or not the handler has
\* returned, and it is over only with a join event or after 5 failures.
C8_RetrierDetached ==
    \A i \in DOMAIN tasks :
        tasks[i].launched = 1 =>
            LET r == retriers[i] IN
            /\ r.pc \in {"sleep", "call", "done"}
            /\ ~Truthy(tasks[i].event.is_direct) => tasks[i].pc = "returned"
            /\ tasks[i].pc = "get" => ENABLED get_global_answered(i, "ok")
            /\ tasks[i].pc = "put" => ENABLED put_global_answered(i, "ok")
            /\ r.pc = "sleep" => ENABLED retry_sleep(i)
            /\ r.pc = "call" => ENABLED retry_update_room_membership(i, "raise")
            /\ r.pc = "done" => (r.join_event # "None" \/ r.retries = 5)

\* the handler has returned and the retrier, after two failures, is about to
\* sleep before its third attempt
C8_Witness ==
    \E i \in DOMAIN tasks :
        /\ tasks[i].pc = "returned"
        /\ retriers[i].pc = "sleep"
        /\ retriers[i].results = <<"raise", "raise">>

RECURSIVE IsSubSeq(_, _)
\* the elements of a occur in b in the same order
IsSubSeq(a, b) ==
    IF a = <<>> THEN TRUE
    ELSE IF b = <<>> THEN FALSE
    ELSE IF Head(a) = Head(b) THEN IsSubSeq(Tail(a), Tail(b))
    ELSE IsSubSeq(a, Tail(b))

\* every association of the account data `old` is in `new`, the rooms of each
\* counterparty in their old order
Keeps(old, new) ==
    old.stored =>
        /\ new.stored
        /\ \A c \in DOMAIN old.map :
              /\ c \in DOMAIN new.map
              /\ new.map[c].is_list = old.map[c].is_list
              /\ IsSubSeq(old.map[c].rooms, new.map[c].rooms)

\* C9 as stated: the stored m.direct map of an account only grows, also when
\* events for one owner are handled concurrently.
C9_MapOnlyGrows ==
    [][\A u \in LocalUsers : Keeps(account_data[u], account_data'[u])]_vars

\* call i stores its map in this step
Puts(i) == tasks[i].pc = "put" /\ tasks'[i].pc = "returned"

\* C9 as amended: the store changes only by the put of a recorder run; what is
\* then stored keeps every association of the map that run read, in order; so
\* the stored map grows across every write of a run that read the map stored at
\* the time of the write.
C9_GrowsFromWhatWasRead ==
    [][\A u \in LocalUsers :
          account_data'[u] # account_data[u] =>
              \E i \in DOMAIN tasks :
                  /\ Puts(i)
                  /\ tasks[i].event.state_key = u
                  /\ Keeps(tasks[i].dm_read, account_data'[u])
                  /\ (tasks[i].dm_read = account_data[u]
                          => Keeps(account_data[u], account_data'[u]))]_vars

\* two recorder runs for one owner, one after the other: the second read what
\* the first stored, and its map is the one stored now
C9_Witness ==
    \E i, j \in DOMAIN tasks :
        /\ i # j
        /\ tasks[i].pc = "returned" /\ tasks[j].pc = "returned"
        /\ tasks[i].dm_read.stored
        /\ tasks[j].dm_read = Stored(tasks[i].dm_map)
        /\ account_data[Invitee] = Stored(tasks[j].dm_map)

\* C10: a recorder run that read the map M writes back M changed at the
\* counterparty key only: [room] if the counterparty was not in M (or nothing
\* was stored), else M[counterparty] followed by room, also when the room is
\* already listed; with no other writer in between, that is the stored map
\* changed at that key only.
C10_MergeResult ==
    [][\A i \in DOMAIN tasks :
          Puts(i) =>
              LET owner == tasks[i].event.state_key
                  counterparty == tasks[i].event.sender
                  room == tasks[i].event.room_id
                  read == tasks[i].dm_read
                  M == IF read.stored THEN read.map ELSE <<>>
                  W == account_data'[owner]
              IN  /\ W.stored
                  /\ DOMAIN W.map = (DOMAIN M) \cup {counterparty}
                  /\ \A c \in (DOMAIN M) \ {counterparty} : W.map[c] = M[c]
                  /\ W.map[counterparty].is_list
                  /\ W.map[counterparty].rooms =
                        IF counterparty \in DOMAIN M
                        THEN Append(M[counterparty].rooms, room)
                        ELSE <<room>>
                  /\ \A u \in LocalUsers \ {owner} :
                        account_data'[u] = account_data[u]]_vars

\* a room already listed for the counterparty has been appended again
C10_Witness ==
    /\ account_data[Invitee].stored
    /\ Inviter \in DOMAIN account_data[Invitee].map
    /\ account_data[Invitee].map[Inviter].rooms = <<"!r2", "!r1", "!r1">>

\* the account data holds, under the counterparty c, a value that is not a
\* sequence of rooms
Malformed(data, c) ==
    /\ data.stored
    /\ c \in DOMAIN data.map
    /\ ~data.map[c].is_list

\* C11: a recorder run that finds a value that is not a sequence of rooms under
\* the counterparty key returns without a write, the store left as it was, and
\* never writes later; the retrier of the same invite has been launched, is
\* not touched by that return and can take its next step afterwards.
C11_MalformedRecordNoWrite ==
    [][\A i \in DOMAIN tasks :
          LET owner == tasks[i].event.state_key
              c == tasks[i].event.sender
          IN  /\ (/\ tasks[i].pc = "get"
                  /\ tasks'[i].pc # "get"
                  /\ Malformed(account_data[owner], c))
                     => /\ tasks'[i].pc = "returned"
                        /\ account_data' = account_data
                        /\ tasks'[i].launched = 1
                        /\ retriers[i].pc \in {"sleep", "call", "done"}
                        /\ retriers'[i] = retriers[i]
              /\ Puts(i) => ~Malformed(tasks[i].dm_read, c)
              /\ (Malformed(tasks[i].dm_read, c) /\ retriers[i].pc = "sleep")
                     => ENABLED retry_sleep(i)
              /\ (Malformed(tasks[i].dm_read, c) /\ retriers[i].pc = "call")
                     => ENABLED retry_update_room_membership(i, "event")]_vars

\* the recorder has returned on a malformed entry, the store is as it was, and
\* the retrier of that invite has joined the room since
C11_Witness ==
    \E i \in DOMAIN tasks :
        /\ tasks[i].pc = "returned"
        /\ Malformed(tasks[i].dm_read, tasks[i].event.sender)
        /\ account_data[Invitee] = tasks[i].dm_read
        /\ retriers[i].pc = "done"
        /\ retriers[i].results = <<"event">>

\* the one answer the room-state query gives in this behaviour
TheAnswer == CHOOSE answer \in env.knock : TRUE

\* the largest origin_server_ts of a non-empty history
LatestTs(h) ==
    CHOOSE t \in {h[k].origin_server_ts : k \in 1..Len(h)} :
        \A k \in 1..Len(h) : h[k].origin_server_ts <= t

\* the events of the history with the largest origin_server_ts
Latest(h) == {k \in 1..Len(h) : h[k].origin_server_ts = LatestTs(h)}

\* the event passes every rule but the knock rule
OtherRulesMet(e) ==
    /\ e.type = "m.room.member"
    /\ e.state_key # NoKey
    /\ e.membership = "invite"
    /\ e.state_key \in LocalUsers
    /\ (config.accept_invites_only_for_direct_messages => e.is_direct = "True")
    /\ (config.accept_invites_only_from_local_users => e.sender \in LocalUsers)

\* C12: with the knock rule on and an event passing every other rule, the
\* retrier is launched iff the fetched history of the sender is non-empty and
\* its event of largest origin_server_ts is a knock (where several events share
\* the largest timestamp, one of them decides): an earlier knock followed by a
\* later leave or join rejects, and so does an empty history.
C12_MostRecentMembershipDecides ==
    \A i \in DOMAIN tasks :
        (/\ config.accept_invites_only_from_previously_knocked_rooms
         /\ OtherRulesMet(tasks[i].event)
         /\ Decided(i)
         /\ TheAnswer.ok)
            => LET h == TheAnswer.events
                   launched == tasks[i].launched = 1
               IN  /\ launched <=> retriers[i].pc # "none"
                   /\ h = <<>> => ~launched
                   /\ (h # <<>> /\ \A k \in Latest(h) : h[k].membership = "knock")
                         => launched
                   /\ (h # <<>> /\ \A k \in Latest(h) : h[k].membership # "knock")
                         => ~launched

\* an invite accepted on a history fetched as knock@2, leave@1
C12_Witness ==
    /\ TheAnswer = QueryReturns(<<[origin_server_ts |-> 2, membership |-> "knock"],
                                  [origin_server_ts |-> 1, membership |-> "leave"]>>)
    /\ \E i \in DOMAIN tasks :
          /\ tasks[i].launched = 1
          /\ retriers[i].results = <<"event">>

\* C13: when the room-state query raises, the checker returns False, the
\* handler does not end with that error, and with the knock rule on the invite
\* is rejected: no retrier, no call of update_room_membership.
C13_QueryFailureRejects ==
    \A i \in DOMAIN tasks :
        (/\ config.accept_invites_only_from_previously_knocked_rooms
         /\ ~TheAnswer.ok
         /\ Decided(i))
            => /\ ~tasks[i].is_allowed_by_knock_rules
               /\ tasks[i].pc = "returned"
               /\ tasks[i].launched = 0
               /\ retriers[i].pc = "none"
               /\ retriers[i].results = <<>>

\* an invite passing every other rule has been handled while the query raised
C13_Witness ==
    /\ TheAnswer = QueryRaises
    /\ \E i \in DOMAIN tasks :
          /\ OtherRulesMet(tasks[i].event)
          /\ tasks[i].pc = "returned"

\* the base predicate: an m.room.member state event, membership invite, for a
\* locally hosted state key
BaseInvite(e) ==
    /\ e.type = "m.room.member"
    /\ e.state_key # NoKey
    /\ e.membership = "invite"
    /\ e.state_key \in LocalUsers

\* C14: with accept_invites_only_for_direct_messages on, an event meeting the
\* base predicate whose is_direct is absent, false or a non-boolean such as the
\* string "true" never causes a join; with is_direct the boolean true (and the
\* other rules met) the retrier is launched and, with no failure, calls
\* update_room_membership exactly once, in its first attempt.
C14_DirectGateIsIdentity ==
    \A i \in DOMAIN tasks :
        LET e == tasks[i].event
            r == retriers[i]
        IN  (/\ config.accept_invites_only_for_direct_messages
             /\ BaseInvite(e)
             /\ Decided(i))
                => /\ e.is_direct \in {"absent", "False", "'true'"}
                        => /\ tasks[i].launched = 0
                           /\ r.pc = "none"
                           /\ r.results = <<>>
                   /\ (/\ e.is_direct = "True"
                       /\ config.accept_invites_only_from_local_users
                              => e.sender \in LocalUsers
                       /\ tasks[i].is_allowed_by_knock_rules)
                        => /\ tasks[i].launched = 1
                           /\ r.pc \in {"sleep", "call", "done"}
                           /\ r.retries = 0
                           /\ r.pc = "done" <=> r.results = <<"event">>
                           /\ r.pc # "done" => r.results = <<>>

\* with only the direct-message rule on, an invite to a local account whose
\* is_direct is the string "true" has been handled
C14_Witness ==
    /\ config.accept_invites_only_for_direct_messages
    /\ ~config.accept_invites_only_from_local_users
    /\ ~config.accept_invites_only_from_previously_knocked_rooms
    /\ \E i \in DOMAIN tasks :
          /\ BaseInvite(tasks[i].event)
          /\ tasks[i].event.is_direct = "'true'"
          /\ tasks[i].pc = "returned"

\* C15: with accept_invites_only_from_local_users on, an invite to a local
\* account from a remote sender never causes a join; with the switch off the
\* decision does not depend on where the sender is hosted: it is taken by the
\* other rules alone, so an invite from a remote sender is accepted.
C15_LocalSenderGate ==
    \A i \in DOMAIN tasks :
        LET e == tasks[i].event
            r == retriers[i]
            launched == tasks[i].launched = 1 /\ r.pc # "none"
        IN  (BaseInvite(e) /\ Decided(i))
                => /\ (/\ config.accept_invites_only_from_local_users
                       /\ e.sender \notin LocalUsers)
                        => /\ tasks[i].launched = 0
                           /\ r.pc = "none"
                           /\ r.results = <<>>
                   /\ ~config.accept_invites_only_from_local_users
                        => (launched <=>
                              /\ config.accept_invites_only_for_direct_messages
                                    => e.is_direct = "True"
                              /\ tasks[i].is_allowed_by_knock_rules)

\* with every switch off, an invite from a remote sender to a local account
\* has been accepted and the account has joined
C15_Witness ==
    /\ ~config.accept_invites_only_for_direct_messages
    /\ ~config.accept_invites_only_from_local_users
    /\ ~config.accept_invites_only_from_previously_knocked_rooms
    /\ \E i \in DOMAIN tasks :
          /\ BaseInvite(tasks[i].event)
          /\ tasks[i].event.sender = Remote
          /\ tasks[i].launched = 1
          /\ retriers[i].results = <<"event">>

\* C16: the module has registered on_new_event iff the configured
\* worker_to_run_on equals the name of this process, None matching None only:
\* no worker named registers on the main process and not on a named worker, a
\* worker named registers on that worker and on no other process; where it
\* registers it does so exactly once, and where it does not no event is handled.
C16_WorkerPlacement ==
    LET configured == config.worker_to_run_on
        once == registered = <<"on_new_event">>
    IN  /\ registered \in {<<>>, <<"on_new_event">>}
        /\ once <=> configured = worker_name
        /\ (configured = "None" /\ worker_name = "None") => once
        /\ (configured = "None" /\ worker_name # "None") => registered = <<>>
        /\ (configured # "None" /\ worker_name # configured) => registered = <<>>
        /\ (configured # "None" /\ worker_name = configured) => once
        /\ registered = <<>> => tasks = <<>>

\* the module configured for worker account_data1 runs there and has handled
\* an event
C16_Witness ==
    /\ config.worker_to_run_on = "account_data1"
    /\ worker_name = "account_data1"
    /\ registered = <<"on_new_event">>
    /\ tasks # <<>>

\* C17: every call of update_room_membership asks for the membership join with
\* sender and target the state key of an invite that was accepted, in the room
\* of that invite; the account joined is therefore locally hosted, and is the
\* inviter or a remote account in no case.
C17_JoinsOnlyTheInvitee ==
    \A i \in DOMAIN retriers :
        \A k \in 1..Len(retriers[i].calls) :
            LET call == retriers[i].calls[k]
                e == tasks[i].event
            IN  /\ call.new_membership = "join"
                /\ call.sender = e.state_key
                /\ call.target = e.state_key
                /\ call.room_id = e.room_id
                /\ tasks[i].launched = 1
                /\ BaseInvite(e)
                /\ call.target \in LocalUsers
                /\ Len(retriers[i].calls) = Len(retriers[i].results)

\* two invites of a remote sender, to a local account into one room and to a
\* remote account into the other: one join, of the local account in its room
C17_Witness ==
    \E i, j \in DOMAIN tasks :
        /\ tasks[i].event.sender = Remote /\ tasks[j].event.sender = Remote
        /\ tasks[i].event.state_key = Invitee /\ tasks[j].event.state_key = Remote
        /\ tasks[i].event.room_id = "!r2" /\ tasks[j].event.room_id = "!r1"
        /\ Decided(j)
        /\ retriers[j].calls = <<>>
        /\ retriers[i].calls = <<[sender |-> Invitee, target |-> Invitee,
                                  room_id |-> "!r2", new_membership |-> "join"]>>

\* C18: with accept_invites_only_from_previously_knocked_rooms on, handling an
\* invite event issues exactly one room-state query, for the m.room.member
\* state of the sender of the invite in the room of the invite; with the
\* switch off no call issues a room-state query, whatever the event.
C18_OneKnockQuery ==
    \A i \in DOMAIN tasks :
        LET e == tasks[i].event IN
        /\ (/\ config.accept_invites_only_from_previously_knocked_rooms
            /\ e.type = "m.room.member"
            /\ e.membership = "invite")
              => tasks[i].queries =
                    <<[room_id |-> e.room_id,
                       types |-> << <<"m.room.member", e.sender>> >>]>>
        /\ ~config.accept_invites_only_from_previously_knocked_rooms
              => tasks[i].queries = <<>>

\* with the knock rule on, an invite of a remote sender to a local account has
\* been handled to its end after one query
C18_Witness ==
    /\ config.accept_invites_only_from_previously_knocked_rooms
    /\ \E i \in DOMAIN tasks :
          /\ BaseInvite(tasks[i].event)
          /\ tasks[i].event.sender = Remote
          /\ tasks[i].pc = "returned"
          /\ Len(tasks[i].queries) = 1

\* the value the raw mapping gives under a key, or the default when the key is
\* absent
ValueOr(entry, default) == IF entry.present THEN entry.value ELSE default

\* C19: parse_config yields a configuration for every raw mapping: each of the
\* three switches has the value given under its key and is off when the key is
\* absent, worker_to_run_on is unset when absent, and the configuration has
\* these four fields only, whatever else the mapping holds.
C19_ParseConfig ==
    LET raw == env.raw IN
    /\ DOMAIN config = {"accept_invites_only_for_direct_messages",
                        "accept_invites_only_from_local_users",
                        "accept_invites_only_from_previously_knocked_rooms",
                        "worker_to_run_on"}
    /\ config.accept_invites_only_for_direct_messages =
          ValueOr(raw.accept_invites_only_for_direct_messages, FALSE)
    /\ config.accept_invites_only_from_local_users =
          ValueOr(raw.accept_invites_only_from_local_users, FALSE)
    /\ config.accept_invites_only_from_previously_knocked_rooms =
          ValueOr(raw.accept_invites_only_from_previously_knocked_rooms, FALSE)
    /\ config.worker_to_run_on = ValueOr(raw.worker_to_run_on, "None")

\* a mapping with an unknown key, one switch given on, one given off and one
\* absent, and no worker: the module runs on the main process and has applied
\* the knock rule to an invite
C19_Witness ==
    /\ env.raw.unknown_key = Given(TRUE)
    /\ env.raw.accept_invites_only_from_previously_knocked_rooms = Given(TRUE)
    /\ env.raw.accept_invites_only_from_local_users = Given(FALSE)
    /\ ~env.raw.accept_invites_only_for_direct_messages.present
    /\ ~env.raw.worker_to_run_on.present
    /\ \E i \in DOMAIN tasks : Len(tasks[i].queries) = 1 /\ tasks[i].launched = 1

\* call i has entered _mark_room_as_direct_message, that is, has asked
\* get_global for the account data
RecorderInvoked(i) ==
    \/ tasks[i].pc \in {"get", "put", "raised"}
    \/ tasks[i].dm_read.stored
    \/ tasks[i].dm_map # <<>>

\* C20: the recorder is invoked for an event iff the event is accepted and its
\* is_direct is the boolean true; an accepted invite whose is_direct is absent,
\* false or a non-boolean such as the string "true" causes no read and no
\* write of account data.
C20_RecorderOnlyForTrue ==
    \A i \in DOMAIN tasks :
        Decided(i) =>
            (RecorderInvoked(i) <=>
                (tasks[i].launched = 1 /\ tasks[i].event.is_direct = "True"))

\* call i has written its map to the store
HasPut(i) == tasks[i].pc = "returned" /\ tasks[i].dm_map # <<>>

\* the rooms listed under c in the map m, none when c is not a key
RoomsOf(m, c) == IF c \in DOMAIN m THEN m[c].rooms ELSE <<>>

\* C21: two recorder runs for one owner that both read the map M before either
\* wrote: when the second writes, the stored map becomes its map, M with its
\* own room appended, and the room the first writer appended is not in it
\* (last writer wins).  Nothing keeps the two runs from interleaving so.
C21_LastWriterWins ==
    [][\A i, j \in DOMAIN tasks :
          (/\ i # j
           /\ tasks[i].event.state_key = tasks[j].event.state_key
           /\ HasPut(i)
           /\ tasks[i].dm_read = tasks[j].dm_read
           /\ Puts(j))
             => LET owner == tasks[j].event.state_key
                    M == IF tasks[j].dm_read.stored THEN tasks[j].dm_read.map ELSE <<>>
                    W == account_data'[owner]
                    first == tasks[i].event.sender
                    second == tasks[j].event.sender
                IN  /\ W = Stored(tasks[j].dm_map)
                    /\ RoomsOf(W.map, second) =
                          Append(RoomsOf(M, second), tasks[j].event.room_id)
                    /\ first # second
                          => /\ RoomsOf(W.map, first) = RoomsOf(M, first)
                             /\ first \in DOMAIN W.map <=> first \in DOMAIN M]_vars

\* two direct invites of different senders to one owner, both read before
\* either wrote: both have written, and the stored map is that of one of them
\* and lists nothing for the sender of the other
C21_Witness ==
    \E i, j \in DOMAIN tasks :
        /\ tasks[i].event.sender # tasks[j].event.sender
        /\ HasPut(i) /\ HasPut(j)
        /\ tasks[i].dm_read = NoData /\ tasks[j].dm_read = NoData
        /\ account_data[Invitee] = Stored(tasks[j].dm_map)
        /\ tasks[i].event.sender \notin DOMAIN account_data[Invitee].map

\* how many calls of the run have raised
Raises(results) == Cardinality({k \in 1..Len(results) : results[k] = "raise"})

\* C22 as stated: sleep is 0 at the start of a run and, after each failed
\* attempt, 2^attemptsMade, the attempt that just failed included.
C22_BackoffCountsFailedAttempt ==
    \A i \in DOMAIN retriers :
        LET r == retriers[i]
            n == Len(r.results)
        IN  r.pc # "none"
              => /\ n = 0 => r.sleep = 0
                 /\ (n > 0 /\ r.results[n] = "raise") => r.sleep = 2^n

\* C22 as amended: sleep is 0 at the start of a run and as long as no call has
\* raised; after a call has raised it is 2^(f-1), f the number of calls of the
\* run that have raised so far, that one included; a call that returns leaves
\* it as it is.
C22_BackoffDoublesFromOne ==
    \A i \in DOMAIN retriers :
        LET r == retriers[i]
            f == Raises(r.results)
        IN  r.pc # "none"
              => /\ r.retries = f
                 /\ r.sleep = IF f = 0 THEN 0 ELSE 2^(f - 1)

\* after three failures the next sleep is 4 seconds
C22_Witness ==
    \E i \in DOMAIN retriers :
        /\ retriers[i].results = <<"raise", "raise", "raise">>
        /\ retriers[i].sleep = 4
        /\ retriers[i].pc = "sleep"

\* the operations of call i, in the order it made them
Ops(i) == [k \in 1..Len(tasks[i].effects) |-> tasks[i].effects[k].op]

IsPrefix(a, b) == Len(a) <= Len(b) /\ a = SubSeq(b, 1, Len(a))

\* the room-state query, made where the knock rule is on
QueryFirst ==
    IF config.accept_invites_only_from_previously_knocked_rooms
    THEN <<"get_state_events_in_room">> ELSE <<>>

\* C23: the handling of an accepted direct invite goes in this order: the
\* room-state query (where the knock rule is on) and with it the accept
\* decision, then the launch of the retrier, then the read of the account
\* data, then the write, then the return of on_new_event; a run of the
\* recorder that aborts goes from the read to the return.  Until the decision
\* nothing is launched, and on_new_event has returned only where the return
\* ends that order.
C23_StepOrder ==
    \A i \in DOMAIN tasks :
        LET ops == Ops(i)
            written == QueryFirst \o <<"run_as_background_process", "get_global",
                                       "put_global", "return">>
            aborted == QueryFirst \o <<"run_as_background_process", "get_global",
                                       "return">>
        IN  /\ tasks[i].pc = "knock"
                  => /\ ops = QueryFirst
                     /\ tasks[i].launched = 0
                     /\ retriers[i].pc = "none"
            /\ (tasks[i].launched = 1 /\ tasks[i].event.is_direct = "True")
                  => /\ IsPrefix(ops, written) \/ IsPrefix(ops, aborted)
                     /\ Len(ops) >= Len(QueryFirst) + 2
                     /\ retriers[i].pc # "none"
                     /\ tasks[i].pc = "get" => ops[Len(ops)] = "get_global"
                     /\ tasks[i].pc = "put" => ops[Len(ops)] = "put_global"
                     /\ tasks[i].pc = "returned" <=> ops[Len(ops)] = "return"
                     /\ tasks[i].dm_read # NoData => ops[Len(ops)] # "get_global"

\* one accepted direct invite handled to its end with a write, another with
\* an aborted recorder
C23_Witness ==
    \E i, j \in DOMAIN tasks :
        /\ Ops(i) = <<"get_state_events_in_room", "run_as_background_process",
                      "get_global", "put_global", "return">>
        /\ Ops(j) = <<"get_state_events_in_room", "run_as_background_process",
                      "get_global", "return">>

\* C24: a call whose accept decision is negative launches no retrier, makes
\* no call of update_room_membership, reads and writes no account data and
\* returns; as long as no call has accepted, the m.direct data of every account
\* is what it was at the start.
C24_RejectedEventNoEffect ==
    /\ \A i \in DOMAIN tasks :
          (Decided(i) /\ tasks[i].launched = 0)
              => /\ retriers[i] = NoRetrier
                 /\ Ops(i) = QueryFirst \o <<"return">>
                 /\ tasks[i].pc = "returned"
                 /\ tasks[i].dm_read = NoData
                 /\ tasks[i].dm_map = <<>>
    /\ (\A i \in DOMAIN tasks : tasks[i].launched = 0)
          => account_data = [u \in LocalUsers |-> NoData]

\* a direct invite to a local account has been rejected by the knock rule
C24_Witness ==
    \E i \in DOMAIN tasks :
        /\ BaseInvite(tasks[i].event)
        /\ tasks[i].event.is_direct = "True"
        /\ Decided(i)
        /\ ~tasks[i].is_allowed_by_knock_rules
        /\ tasks[i].launched = 0

\* the calls of the account-data store made by call i, in order
StoreCalls(i) ==
    SelectSeq(tasks[i].effects, LAMBDA x : x.op \in {"get_global", "put_global"})

\* C25: a recorder run reads the account data exactly once and writes it at
\* most once, the read first, both for the account of the state key of the
\* invite under the type m.direct; the map written is the map read with the
\* sender of the invite as the key changed; a run that has ended has written
\* unless it found a malformed value under that key, and then it has not.
C25_OneReadOneWrite ==
    \A i \in DOMAIN tasks :
        LET e == tasks[i].event
            calls == StoreCalls(i)
            get == Effect("get_global", e.state_key, "m.direct")
            put == Effect("put_global", e.state_key, "m.direct")
            M == IF tasks[i].dm_read.stored THEN tasks[i].dm_read.map ELSE <<>>
        IN  /\ calls \in {<<>>, <<get>>, <<get, put>>}
            /\ calls # <<>> <=> (tasks[i].launched = 1 /\ Truthy(e.is_direct))
            /\ (calls # <<>> /\ tasks[i].pc = "returned")
                  => (calls = <<get>> <=> Malformed(tasks[i].dm_read, e.sender))
            /\ calls = <<get, put>>
                  => /\ DOMAIN tasks[i].dm_map = (DOMAIN M) \cup {e.sender}
                     /\ \A c \in (DOMAIN M) \ {e.sender} : tasks[i].dm_map[c] = M[c]
                     /\ tasks[i].dm_map[e.sender].rooms =
                           Append(RoomsOf(M, e.sender), e.room_id)
                     /\ tasks[i].pc = "returned" => account_data[e.state_key].stored

\* a run that read a stored map with another counterparty in it has written
\* the whole map back and ended
C25_Witness ==
    \E i \in DOMAIN tasks :
        /\ tasks[i].event.sender = Remote
        /\ Inviter \in DOMAIN tasks[i].dm_read.map
        /\ Len(StoreCalls(i)) = 2
        /\ tasks[i].pc = "returned"
        /\ account_data[Invitee] = Stored(tasks[i].dm_map)

\* C26: whether the module is active (on_new_event registered) or dormant is
\* fixed by the construction: no step changes the registration, the
\* configuration or the worker name, whatever is handled and whatever fails;
\* and a dormant module handles no event, so it makes no membership call, no
\* room-state query and no account-data access.
C26_PlacementIsFixed ==
    /\ [](registered = <<>>
            => /\ tasks = <<>>
               /\ retriers = <<>>
               /\ account_data = [u \in LocalUsers |-> NoData])
    /\ [][/\ registered' = registered
          /\ config' = config
          /\ worker_name' = worker_name]_vars

\* the module configured for the worker account_data1 is still registered
\* there after it handled two invites, one join done and one rejected
C26_Witness ==
    /\ worker_name = "account_data1"
    /\ registered = <<"on_new_event">>
    /\ \E i, j \in DOMAIN tasks :
          /\ retriers[i].pc = "done"
          /\ tasks[j].pc = "returned" /\ tasks[j].launched = 0

\* C27: every accepted invite has a retrier of its own, which starts with no
\* attempt made, sleep 0 and no join event; a step changes the state of one
\* retrier at most, so what one run meets (failure or success) changes neither
\* the count, the sleep nor the outcome of another, also where the runs are
\* for the same account and room; each run's count and sleep follow from its
\* own results.
C27_RetryStateIsPrivate ==
    [][/\ \A i, j \in DOMAIN retriers :
             (i # j /\ retriers'[i] # retriers[i]) => retriers'[j] = retriers[j]
       /\ \A i \in DOMAIN retriers' :
             LET new == retriers'[i] IN
             /\ (i \notin DOMAIN retriers \/ retriers[i].pc = "none")
                   => (new.pc # "none"
                         => /\ new.retries = 0 /\ new.sleep = 0
                            /\ new.join_event = "None" /\ new.results = <<>>
                            /\ tasks'[i].launched = 1)
             /\ new.retries = Raises(new.results)
             /\ new.sleep = (IF new.retries = 0 THEN 0 ELSE 2^(new.retries - 1))
             /\ new.join_event # "None"
                   <=> (new.results # <<>> /\ new.results[Len(new.results)] = "event")]_vars

\* two runs for the same account and room: one has joined after one failure,
\* the other is about to sleep 2 seconds after two failures
C27_Witness ==
    \E i, j \in DOMAIN retriers :
        /\ retriers[i].target = retriers[j].target
        /\ retriers[i].room_id = retriers[j].room_id
        /\ retriers[i].results = <<"raise", "event">>
        /\ retriers[i].pc = "done"
        /\ retriers[j].results = <<"raise", "raise">>
        /\ retriers[j].sleep = 2

\* the first and the last position of a non-empty set of positions
First(positions) == CHOOSE k \in positions : \A l \in positions : k <= l

Last(positions) == CHOOSE k \in positions : \A l \in positions : l <= k

\* C28 as stated: where several events of the history share the largest
\* origin_server_ts, the verdict is that of the one fetched last.
C28_LastTiedEventDecides ==
    \A i \in DOMAIN tasks :
        (/\ config.accept_invites_only_from_previously_knocked_rooms
         /\ Decided(i)
         /\ TheAnswer.ok
         /\ TheAnswer.events # <<>>)
            => LET h == TheAnswer.events IN
               tasks[i].is_allowed_by_knock_rules
                   <=> h[Last(Latest(h))].membership = "knock"

\* C28 as amended: where several events of the history share the largest
\* origin_server_ts, the verdict is that of the one fetched first.
C28_FirstTiedEventDecides ==
    \A i \in DOMAIN tasks :
        (/\ config.accept_invites_only_from_previously_knocked_rooms
         /\ Decided(i)
         /\ TheAnswer.ok
         /\ TheAnswer.events # <<>>)
            => LET h == TheAnswer.events IN
               /\ tasks[i].is_allowed_by_knock_rules
                     <=> h[First(Latest(h))].membership = "knock"
               /\ tasks[i].launched = 1 <=> tasks[i].is_allowed_by_knock_rules

\* an invite accepted on a history fetched as knock@2, leave@2
C28_Witness ==
    /\ TheAnswer = QueryReturns(<<[origin_server_ts |-> 2, membership |-> "knock"],
                                  [origin_server_ts |-> 2, membership |-> "leave"]>>)
    /\ \E i \in DOMAIN tasks :
          /\ Decided(i)
          /\ tasks[i].is_allowed_by_knock_rules
          /\ tasks[i].launched = 1

\* C29: with accept_invites_only_from_previously_knocked_rooms on, every call
\* of on_new_event issues the room-state query first, before its decision,
\* also for an event that is no m.room.member event, no invite or an invite
\* to a remote account; for such an event nothing is launched whatever the
\* verdict of the query.
C29_QueryForEveryEvent ==
    config.accept_invites_only_from_previously_knocked_rooms
        => \A i \in DOMAIN tasks :
              LET e == tasks[i].event IN
              /\ tasks[i].queries =
                    <<[room_id |-> e.room_id,
                       types |-> << <<"m.room.member", e.sender>> >>]>>
              /\ Ops(i)[1] = "get_state_events_in_room"
              /\ ~Decided(i) => (Len(Ops(i)) = 1 /\ tasks[i].launched = 0)
              /\ (~BaseInvite(e) /\ Decided(i))
                    => /\ tasks[i].launched = 0
                       /\ retriers[i].pc = "none"
                       /\ Ops(i) = <<"get_state_events_in_room", "return">>

\* the query has been answered with a knock for a message event, which is
\* then ignored
C29_Witness ==
    /\ config.accept_invites_only_from_previously_knocked_rooms
    /\ \E i \in DOMAIN tasks :
          /\ tasks[i].event.type = "m.room.message"
          /\ Len(tasks[i].queries) = 1
          /\ Decided(i)
          /\ tasks[i].is_allowed_by_knock_rules
          /\ tasks[i].launched = 0

\* the room of call i is listed under its sender in the m.direct map of the
\* invited account
Listed(i) ==
    LET data == account_data[tasks[i].event.state_key]
        c == tasks[i].event.sender
    IN  /\ data.stored
        /\ c \in DOMAIN data.map
        /\ \E k \in 1..Len(data.map[c].rooms) :
              data.map[c].rooms[k] = tasks[i].event.room_id

\* C30: the direct-message record does not wait for the join nor depend on
\* it: the write of a call can be made wherever its retrier is, no step of a
\* retrier touches the account data, and once a call has written the room
\* stays listed, also when the retrier has given up after 5 failed attempts
\* (only the write of another call for the same account replaces the map).
C30_RecordIndependentOfJoin ==
    /\ [](\A i \in DOMAIN tasks :
             /\ tasks[i].pc = "put" => ENABLED put_global_answered(i, "ok")
             /\ (/\ HasPut(i)
                 /\ \A j \in DOMAIN tasks \ {i} :
                       ~(HasPut(j) /\ tasks[j].event.state_key
                                        = tasks[i].event.state_key))
                    => Listed(i))
    /\ [][\A i \in DOMAIN retriers :
             retriers'[i] # retriers[i] => account_data' = account_data]_vars

\* the write was made, no join attempt has succeeded, all 5 have failed and
\* the join was abandoned, and the room is listed
C30_Witness ==
    \E i \in DOMAIN tasks :
        /\ HasPut(i)
        /\ Listed(i)
        /\ retriers[i].pc = "done"
        /\ retriers[i].join_event = "None"
        /\ retriers[i].results = <<"raise", "raise", "raise", "raise", "raise">>
        /\ retriers[i].slept = <<0, 1, 2, 4, 8>>

\* the results of the calls of a run made before its call number k
Before(results, k) == SubSeq(results, 1, k - 1)

\* C31: loop invariant of _retry_make_join. In every state of a run, retries
\* is between 0 and 5 and is the number of calls that have raised so far,
\* sleep is 0 while retries is 0 and 2^(retries-1) afterwards, and
\* update_room_membership is called, and was called each time, only with
\* retries below 5 and with no join event obtained before; no step makes
\* retries smaller.
C31_RetrierLoopInvariant ==
    /\ [](\A i \in DOMAIN retriers :
             LET r == retriers[i]
             IN  r.pc # "none"
                   => /\ r.retries \in 0..MaxRetries
                      /\ r.retries = Raises(r.results)
                      /\ r.sleep = IF r.retries = 0 THEN 0 ELSE 2^(r.retries - 1)
                      /\ r.pc \in {"sleep", "call"}
                            => r.retries < MaxRetries /\ r.join_event = "None"
                      /\ Len(r.calls) = Len(r.results)
                      /\ \A k \in 1..Len(r.results) :
                            /\ Raises(Before(r.results, k)) < MaxRetries
                            /\ \A h \in 1..(k - 1) : r.results[h] # "event")
    /\ [][\A i \in DOMAIN retriers :
             retriers'[i].retries >= retriers[i].retries]_vars

\* a run in the loop after a call that returned nothing and four that raised:
\* retries is 4, the pending sleep 8, and the sixth call is about to be made
C31_Witness ==
    \E i \in DOMAIN retriers :
        /\ retriers[i].pc = "call"
        /\ retriers[i].results = <<"raise", "none", "raise", "raise", "raise">>
        /\ retriers[i].retries = 4
        /\ retriers[i].sleep = 8
        /\ retriers[i].join_event = "None"

====
